---- MODULE Spec2Model ----
(***************************************************************************)
(* beem.memo.Memo: encryption and decryption of the memo attached to a     *)
(* transfer.  The Memo object holds a steem instance (whose wallet is the  *)
(* key store) and, optionally, a sender and a receiver account.            *)
(*                                                                         *)
(* Spec     : one caller; every method of Memo is one atomic action.       *)
(* SpecConc : several callers run encrypt / decrypt on one Memo object,    *)
(*            interleaved between the key-store lookups and the codec call. *)
(***************************************************************************)
EXTENDS Integers, Sequences, FiniteSets, TLC

\* ------------------------------------------------------------------ bounds
NumCalls == 2          \* concurrent callers of SpecConc
NumNonces == 2         \* sample draws of random.getrandbits
NonceBits == 64        \* random.getrandbits(64)

Calls == 1 .. NumCalls
Idents == {"A", "B"}   \* the memo key pairs of the model

\* ----------------------------------------------------------- Python values
None == [t |-> "None"]
EmptyDict == [t |-> "dict"]
Str(s) == [t |-> "str", s |-> s]
EmptyStr == Str("")
\* the truth value Python's `not x` tests: None, "" and {} are false
Truthy(v) == v # None /\ v # EmptyStr /\ v # EmptyDict

Self == [t |-> "Memo"]
Return(v) == [kind |-> "return", val |-> v]
Raise(e) == [kind |-> "raise", exc |-> e]

\* serialized public memo key, wallet-import-format private key, account name
PubKey(i) == [t |-> "pub", id |-> i]
Wif(i) == [t |-> "wif", id |-> i]
AccountName(i) == [t |-> "name", id |-> i]
\* Account(name): the two items of the account this module reads
Account(i) == [name |-> AccountName(i), memo_key |-> PubKey(i)]

\* ------------------------------------------------ str(random.getrandbits(64))
\* sample draws, most significant bit first: 0, 2^n - 1, 2^(n-1), then small values
Pow2(n) == IF n = 0 THEN 1 ELSE IF n = 1 THEN 2 ELSE IF n = 2 THEN 4 ELSE 8
getrandbits(k, n) ==
    [i \in 1 .. n |->
        IF k = 1 THEN 0
        ELSE IF k = 2 THEN 1
        ELSE IF k = 3 THEN (IF i = 1 THEN 1 ELSE 0)
        ELSE IF n - i > 3 THEN 0 ELSE (k \div Pow2(n - i)) % 2]

\* decimal digits, least significant first, of 2 * ds + carry
RECURSIVE DoubleAdd(_, _)
DoubleAdd(ds, carry) ==
    IF ds = <<>>
    THEN IF carry = 0 THEN <<>> ELSE <<carry>>
    ELSE LET v == 2 * Head(ds) + carry
         IN  <<v % 10>> \o DoubleAdd(Tail(ds), v \div 10)

\* decimal digits, least significant first, of the first i bits (i a multiple
\* of 4, four bits a step); the bound variable p holds the digits so far
RECURSIVE ToDecimal(_, _)
ToDecimal(bits, i) ==
    IF i = 0 THEN <<>>
    ELSE CHOOSE r \in
           {DoubleAdd(DoubleAdd(DoubleAdd(DoubleAdd(p, bits[i - 3]), bits[i - 2]),
                                bits[i - 1]), bits[i])
              : p \in {ToDecimal(bits, i - 4)}} : TRUE

Reverse(s) == [i \in 1 .. Len(s) |-> s[Len(s) + 1 - i]]

\* str(int): the decimal digits, most significant first, no leading zero
IntToStr(bits) ==
    LET ds == ToDecimal(bits, Len(bits))
    IN  [t |-> "str", digits |-> IF ds = <<>> THEN <<0>> ELSE Reverse(ds)]

\* the nonce of each sample draw: str(random.getrandbits(64))
NonceOf == [k \in 1 .. NumNonces |-> IntToStr(getrandbits(k, NonceBits))]

\* ------------------------------------------------------- key store (wallet)
KeyStates == {"held", "absent", "unreadable"}
MissSignals == {"KeyNotFound", "None"}
Wallets == [keys : [Idents -> KeyStates], locked : BOOLEAN, missSignal : MissSignals]

\* a lookup the store cannot serve: the KeyNotFound condition, or no value
Miss(w) == IF w.missSignal = "KeyNotFound" THEN Raise("KeyNotFound") ELSE Return(None)

getPrivateKeyForPublicKey(w, pub) ==
    IF w.locked THEN Miss(w)
    ELSE IF w.keys[pub.id] = "held" THEN Return(Wif(pub.id))
    ELSE IF w.keys[pub.id] = "unreadable" THEN Raise("StorageError")
    ELSE Miss(w)

unlock(w, pwdOk) == IF pwdOk THEN [w EXCEPT !.locked = FALSE] ELSE w

\* ------------------------------------------------------ shared-secret codec
get_shared_secret(priv, pub) == {priv.id, pub.id}
init_aes(secret, nonce) == [secret |-> secret, nonce |-> nonce]
Checksum(text) == text.s

encode_memo(priv, pub, nonce, text) ==
    [t |-> "hex", key |-> init_aes(get_shared_secret(priv, pub), nonce),
     body |-> text, check |-> Checksum(text)]

decode_memo(priv, pub, nonce, message) ==
    IF message.t # "hex" THEN Raise("FormatError")
    ELSE IF message.key # init_aes(get_shared_secret(priv, pub), nonce)
         THEN Raise("IntegrityError")
    ELSE IF message.check # Checksum(message.body) THEN Raise("IntegrityError")
    ELSE Return(message.body)

\* ------------------------------------------------------------- Memo object
NoAttr == "unset"
AccountArgs == Idents \cup {NoAttr}
Memos == [from_account : AccountArgs, to_account : AccountArgs]

\* events a call makes outside itself, in order
EvRandom == [ev |-> "getrandbits", bits |-> NonceBits]
EvLookup(pub) == [ev |-> "lookup", pub |-> pub]
EvEncode(priv, pub, nonce, text) ==
    [ev |-> "encode", priv |-> priv, pub |-> pub, nonce |-> nonce, text |-> text]
EvDecode(priv, pub, nonce, message) ==
    [ev |-> "decode", priv |-> priv, pub |-> pub, nonce |-> nonce, message |-> message]

Result(out, log) == [out |-> out, log |-> log]

\* variant: the envelope carries the account names, not the memo keys
EncryptEncode_Names(m, memo_wif, nonce, memo) ==
    IF m.to_account = NoAttr THEN Result(Raise("AttributeError"), <<>>)
    ELSE LET to_key == Account(m.to_account).memo_key
             enc == encode_memo(memo_wif, to_key, nonce, memo)
         IN  Result(Return([message |-> enc, nonce |-> nonce,
                            from |-> Account(m.from_account).name,
                            to |-> Account(m.to_account).name]),
                    <<EvEncode(memo_wif, to_key, nonce, memo)>>)

\* variant: the text is encoded for the sender's own public memo key
EncryptEncode_OwnKey(m, memo_wif, nonce, memo) ==
    IF m.to_account = NoAttr THEN Result(Raise("AttributeError"), <<>>)
    ELSE LET to_key == Account(m.to_account).memo_key
             from_key == Account(m.from_account).memo_key
             enc == encode_memo(memo_wif, from_key, nonce, memo)
         IN  Result(Return([message |-> enc, nonce |-> nonce,
                            from |-> from_key, to |-> to_key]),
                    <<EvEncode(memo_wif, from_key, nonce, memo)>>)

\* Memo.encrypt, lines 179-194: encode and build the envelope
EncryptEncode(m, memo_wif, nonce, memo) ==
    IF m.to_account = NoAttr THEN Result(Raise("AttributeError"), <<>>)
    ELSE LET to_key == Account(m.to_account).memo_key
             enc == encode_memo(memo_wif, to_key, nonce, memo)
         IN  Result(Return([message |-> enc, nonce |-> nonce,
                            from |-> Account(m.from_account).memo_key,
                            to |-> to_key]),
                    <<EvEncode(memo_wif, to_key, nonce, memo)>>)

\* Memo.encrypt, lines 173-177: the sender's private memo key
EncryptLookup(m, w) ==
    IF m.from_account = NoAttr THEN Result(Raise("AttributeError"), <<>>)
    ELSE LET pub == Account(m.from_account).memo_key
             lk == getPrivateKeyForPublicKey(w, pub)
         IN  IF lk.kind = "raise" THEN Result(lk, <<EvLookup(pub)>>)
             ELSE IF ~Truthy(lk.val)
                  THEN Result([kind |-> "raise", exc |-> "MissingKeyError",
                               account |-> Account(m.from_account).name],
                              <<EvLookup(pub)>>)
             ELSE Result(lk, <<EvLookup(pub)>>)

\* variant: only None is taken for "no memo"
encrypt_NoneOnly(m, w, memo, k) ==
    IF memo = None THEN Result(Return(None), <<>>)
    ELSE LET nonce == NonceOf[k]
             lk == EncryptLookup(m, w)
         IN  IF lk.out.kind = "raise"
             THEN Result(lk.out, <<EvRandom>> \o lk.log)
             ELSE LET en == EncryptEncode(m, lk.out.val, nonce, memo)
                  IN  Result(en.out, <<EvRandom>> \o lk.log \o en.log)

\* Memo.encrypt(memo), with the random draw k
encrypt(m, w, memo, k) ==
    IF ~Truthy(memo) THEN Result(Return(None), <<>>)
    ELSE LET nonce == NonceOf[k]
             lk == EncryptLookup(m, w)
         IN  IF lk.out.kind = "raise"
             THEN Result(lk.out, <<EvRandom>> \o lk.log)
             ELSE LET en == EncryptEncode(m, lk.out.val, nonce, memo)
                  IN  Result(en.out, <<EvRandom>> \o lk.log \o en.log)

\* Memo.decrypt, lines 226-231: PrivateKey(memo_wif), then decode_memo
DecryptDecode(memo_wif, pubkey, memo) ==
    IF memo_wif = None THEN Result(Raise("InvalidKeyError"), <<>>)
    ELSE Result(decode_memo(memo_wif, pubkey, memo.nonce, memo.message),
                <<EvDecode(memo_wif, pubkey, memo.nonce, memo.message)>>)

\* variant: the second KeyNotFound is not handled
DecryptLookupFrom_Unhandled(w, memo) ==
    Result(getPrivateKeyForPublicKey(w, memo.from), <<EvLookup(memo.from)>>)

\* Memo.decrypt, lines 213-224: the lookup as sender
DecryptLookupFrom(w, memo) ==
    LET lk == getPrivateKeyForPublicKey(w, memo.from)
    IN  IF lk.kind = "raise" /\ lk.exc = "KeyNotFound"
        THEN Result([kind |-> "raise", exc |-> "MissingKeyError",
                     need |-> <<memo.to, memo.from>>],
                    <<EvLookup(memo.from)>>)
        ELSE Result(lk, <<EvLookup(memo.from)>>)

\* variant: every error of the first lookup is handled like KeyNotFound
DecryptLookupTo_AnyError(w, memo) ==
    LET lk == getPrivateKeyForPublicKey(w, memo.to)
    IN  [out |-> lk, log |-> <<EvLookup(memo.to)>>, fallback |-> lk.kind = "raise"]

\* Memo.decrypt, lines 207-212: the lookup as receiver; fallback tells whether
\* the handler of KeyNotFound runs
DecryptLookupTo(w, memo) ==
    LET lk == getPrivateKeyForPublicKey(w, memo.to)
    IN  [out |-> lk, log |-> <<EvLookup(memo.to)>>,
         fallback |-> lk.kind = "raise" /\ lk.exc = "KeyNotFound"]

\* variant: the sender role is tried first
DecryptResolve_SenderFirst(w, memo) ==
    LET l1 == getPrivateKeyForPublicKey(w, memo.from)
        l2 == getPrivateKeyForPublicKey(w, memo.to)
    IN  IF l1.kind = "raise" /\ l1.exc = "KeyNotFound"
        THEN [out |-> IF l2.kind = "raise" /\ l2.exc = "KeyNotFound"
                      THEN [kind |-> "raise", exc |-> "MissingKeyError",
                            need |-> <<memo.to, memo.from>>]
                      ELSE l2,
              log |-> <<EvLookup(memo.from), EvLookup(memo.to)>>, pubkey |-> memo.from]
        ELSE [out |-> l1, log |-> <<EvLookup(memo.from)>>, pubkey |-> memo.to]

\* Memo.decrypt, lines 207-224: [out, log, pubkey] of the role resolution
DecryptResolve(w, memo) ==
    LET l1 == DecryptLookupTo(w, memo)
    IN  IF l1.fallback
        THEN LET l2 == DecryptLookupFrom(w, memo)
             IN  [out |-> l2.out, log |-> l1.log \o l2.log, pubkey |-> memo.to]
        ELSE [out |-> l1.out, log |-> l1.log, pubkey |-> memo.from]

\* variant: a failed decode as receiver is retried as sender
decrypt_RetryAsSender(w, memo) ==
    IF ~Truthy(memo) THEN Result(Return(None), <<>>)
    ELSE LET rs == DecryptResolve(w, memo)
         IN  IF rs.out.kind = "raise" THEN Result(rs.out, rs.log)
             ELSE LET de == DecryptDecode(rs.out.val, rs.pubkey, memo)
                      l2 == DecryptLookupFrom(w, memo)
                  IN  IF de.out.kind = "return" \/ rs.pubkey = memo.to
                         \/ l2.out.kind = "raise"
                      THEN Result(de.out, rs.log \o de.log)
                      ELSE LET d2 == DecryptDecode(l2.out.val, memo.to, memo)
                           IN  Result(d2.out, rs.log \o de.log \o l2.log \o d2.log)

\* Memo.decrypt(memo)
decrypt(w, memo) ==
    IF ~Truthy(memo) THEN Result(Return(None), <<>>)
    ELSE LET rs == DecryptResolve(w, memo)
         IN  IF rs.out.kind = "raise" THEN Result(rs.out, rs.log)
             ELSE LET de == DecryptDecode(rs.out.val, rs.pubkey, memo)
                  IN  Result(de.out, rs.log \o de.log)

\* ------------------------------------------------------------------- state
VARIABLES
    memo,       \* the Memo object: from_account, to_account (set by __init__)
    wallet,     \* self.steem.wallet, the key store
    last,       \* Spec: the latest operation, its argument, outcome and events
    sent,       \* Spec: the latest envelope encrypt returned, with its plaintext
    pc,         \* SpecConc: where each caller stands in its call
    arg,        \* SpecConc: the argument `memo` of each caller's call
    nonce,      \* SpecConc: local `nonce` of encrypt
    memo_wif,   \* SpecConc: local `memo_wif`
    pubkey,     \* SpecConc: local `pubkey` of decrypt
    ret,        \* SpecConc: the outcome of each caller's call
    log         \* SpecConc: the events of each caller's call

vars == <<memo, wallet, last, sent, pc, arg, nonce, memo_wif, pubkey, ret, log>>
callVars == <<pc, arg, nonce, memo_wif, pubkey, ret, log>>

\* ------------------------------------------------------------------ inputs
Foobar == Str("foobar")
Texts == {None, EmptyStr, Foobar, Str("hi")}
Draws == 1 .. NumNonces

Other(i) == CHOOSE j \in Idents : j # i

\* envelopes a caller may hand to decrypt: well-formed, encrypted for another
\* pair of keys, with a damaged check value, and with a malformed message
SampleEnvelope(f, t, variant) ==
    LET n == NonceOf[2]
        good == encode_memo(Wif(f), PubKey(t), n, Foobar)
    IN  [from |-> PubKey(f), to |-> PubKey(t), nonce |-> n,
         message |-> CASE variant = "good" -> good
                       [] variant = "wrongkey" -> encode_memo(Wif(Other(f)), PubKey(Other(f)), n, Foobar)
                       [] variant = "tampered" -> [good EXCEPT !.check = "tampered"]
                       [] OTHER -> [t |-> "garbage"]]
Variants == {"good", "wrongkey", "tampered", "malformed"}
SampleEnvelopes == {SampleEnvelope(f, t, v) : f \in Idents, t \in Idents, v \in Variants}
ConcEnvelopes == {SampleEnvelope("A", "B", v) : v \in {"good", "wrongkey", "malformed"}}

NoCall == [op |-> "none", arg |-> None, out |-> Return(None), log |-> <<>>]
NoSent == [env |-> None, plain |-> None]

\* -------------------------------------------------------------------- Spec
IdleCalls ==
    /\ pc = [c \in Calls |-> "idle"]
    /\ arg = [c \in Calls |-> None]
    /\ nonce = [c \in Calls |-> None]
    /\ memo_wif = [c \in Calls |-> None]
    /\ pubkey = [c \in Calls |-> None]
    /\ ret = [c \in Calls |-> Return(None)]
    /\ log = [c \in Calls |-> <<>>]

Init ==
    /\ memo \in Memos
    /\ wallet \in Wallets
    /\ last = NoCall
    /\ sent = NoSent
    /\ IdleCalls

\* Memo.unlock_wallet(pwd): unlocks the wallet and returns the Memo object
UnlockWallet(pwdOk) ==
    /\ wallet' = unlock(wallet, pwdOk)
    /\ last' = [NoCall EXCEPT !.op = "unlock_wallet",
                              !.out = IF pwdOk \/ ~wallet.locked THEN Return(Self)
                                      ELSE Raise("WrongMasterPasswordException")]
    /\ UNCHANGED <<memo, sent, callVars>>

\* Memo.encrypt(text), the whole call
Encrypt(text, k) ==
    LET r == encrypt(memo, wallet, text, k)
    IN  /\ last' = [op |-> "encrypt", arg |-> text, out |-> r.out, log |-> r.log]
        /\ sent' = IF r.out.kind = "return" /\ r.out.val # None
                   THEN [env |-> r.out.val, plain |-> text] ELSE sent
        /\ UNCHANGED <<memo, wallet, callVars>>

\* variant: decrypt unlocks the wallet on its way
Decrypt_Unlocking(env) ==
    LET r == decrypt(wallet, env)
    IN  /\ last' = [op |-> "decrypt", arg |-> env, out |-> r.out, log |-> r.log]
        /\ wallet' = unlock(wallet, TRUE)
        /\ UNCHANGED <<memo, sent, callVars>>

\* Memo.decrypt(env), the whole call
Decrypt(env) ==
    LET r == decrypt(wallet, env)
    IN  /\ last' = [op |-> "decrypt", arg |-> env, out |-> r.out, log |-> r.log]
        /\ UNCHANGED <<memo, wallet, sent, callVars>>

\* the owner of the wallet imports, removes or damages a key, or locks it
WalletEnv(w) ==
    /\ w # wallet
    /\ w.missSignal = wallet.missSignal
    /\ \/ w.keys = wallet.keys /\ w.locked
       \/ w.locked = wallet.locked /\ \E i \in Idents : \A j \in Idents \ {i} : w.keys[j] = wallet.keys[j]
    /\ wallet' = w
    /\ last' = [NoCall EXCEPT !.op = "wallet"]
    /\ UNCHANGED <<memo, sent, callVars>>

DecryptArgs == {None, EmptyDict} \cup SampleEnvelopes \cup (IF sent = NoSent THEN {} ELSE {sent.env})

Next ==
    \/ \E ok \in BOOLEAN : UnlockWallet(ok)
    \/ \E text \in Texts, k \in Draws : Encrypt(text, k)
    \/ \E env \in DecryptArgs : Decrypt(env)
    \/ \E w \in Wallets : WalletEnv(w)

Spec == Init /\ [][Next]_vars

\* ---------------------------------------------------------------- SpecConc
\* Each caller c makes one call on the shared Memo object; a step of a call
\* is its entry, one key-store lookup, or the codec call with the return.
ConcTexts == {EmptyStr, Foobar}
ConcArgs == {EmptyDict} \cup ConcEnvelopes

InitConc ==
    /\ memo \in {[from_account |-> "A", to_account |-> "B"],
                [from_account |-> "B", to_account |-> NoAttr]}
    /\ wallet \in Wallets
    /\ last = NoCall
    /\ sent = NoSent
    /\ IdleCalls

Finish(c, out, events) ==
    /\ ret' = [ret EXCEPT ![c] = out]
    /\ log' = [log EXCEPT ![c] = log[c] \o events]

\* encrypt, lines 169-172
EncryptBegin(c, text, k) ==
    /\ pc[c] = "idle"
    /\ arg' = [arg EXCEPT ![c] = text]
    /\ IF ~Truthy(text)
       THEN /\ Finish(c, Return(None), <<>>)
            /\ pc' = [pc EXCEPT ![c] = "enc_done"]
            /\ UNCHANGED nonce
       ELSE /\ nonce' = [nonce EXCEPT ![c] = NonceOf[k]]
            /\ log' = [log EXCEPT ![c] = <<EvRandom>>]
            /\ pc' = [pc EXCEPT ![c] = "enc_lookup"]
            /\ UNCHANGED ret
    /\ UNCHANGED <<memo, wallet, last, sent, memo_wif, pubkey>>

\* encrypt, lines 173-177
EncryptLookupStep(c) ==
    /\ pc[c] = "enc_lookup"
    /\ LET r == EncryptLookup(memo, wallet)
       IN  IF r.out.kind = "raise"
           THEN /\ Finish(c, r.out, r.log)
                /\ pc' = [pc EXCEPT ![c] = "enc_done"]
                /\ UNCHANGED memo_wif
           ELSE /\ memo_wif' = [memo_wif EXCEPT ![c] = r.out.val]
                /\ log' = [log EXCEPT ![c] = log[c] \o r.log]
                /\ pc' = [pc EXCEPT ![c] = "enc_encode"]
                /\ UNCHANGED ret
    /\ UNCHANGED <<memo, wallet, last, sent, arg, nonce, pubkey>>

\* encrypt, lines 179-194
EncryptEncodeStep(c) ==
    /\ pc[c] = "enc_encode"
    /\ LET r == EncryptEncode(memo, memo_wif[c], nonce[c], arg[c])
       IN  Finish(c, r.out, r.log)
    /\ pc' = [pc EXCEPT ![c] = "enc_done"]
    /\ UNCHANGED <<memo, wallet, last, sent, arg, nonce, memo_wif, pubkey>>

\* decrypt, lines 203-204
DecryptBegin(c, env) ==
    /\ pc[c] = "idle"
    /\ arg' = [arg EXCEPT ![c] = env]
    /\ IF ~Truthy(env)
       THEN /\ Finish(c, Return(None), <<>>)
            /\ pc' = [pc EXCEPT ![c] = "dec_done"]
       ELSE /\ pc' = [pc EXCEPT ![c] = "dec_lookup_to"]
            /\ UNCHANGED <<ret, log>>
    /\ UNCHANGED <<memo, wallet, last, sent, nonce, memo_wif, pubkey>>

\* variant: the key found is kept on the Memo object, for every call to see
DecryptLookupToStep_Shared(c) ==
    /\ pc[c] = "dec_lookup_to"
    /\ LET r == DecryptLookupTo(wallet, arg[c])
       IN  /\ log' = [log EXCEPT ![c] = log[c] \o r.log]
           /\ IF r.fallback
              THEN /\ pc' = [pc EXCEPT ![c] = "dec_lookup_from"]
                   /\ UNCHANGED <<ret, memo_wif, pubkey>>
              ELSE IF r.out.kind = "raise"
              THEN /\ ret' = [ret EXCEPT ![c] = r.out]
                   /\ pc' = [pc EXCEPT ![c] = "dec_done"]
                   /\ UNCHANGED <<memo_wif, pubkey>>
              ELSE /\ memo_wif' = [d \in Calls |-> r.out.val]
                   /\ pubkey' = [d \in Calls |-> arg[c].from]
                   /\ pc' = [pc EXCEPT ![c] = "dec_decode"]
                   /\ UNCHANGED ret
    /\ UNCHANGED <<memo, wallet, last, sent, arg, nonce>>

\* decrypt, lines 207-212
DecryptLookupToStep(c) ==
    /\ pc[c] = "dec_lookup_to"
    /\ LET r == DecryptLookupTo(wallet, arg[c])
       IN  /\ log' = [log EXCEPT ![c] = log[c] \o r.log]
           /\ IF r.fallback
              THEN /\ pc' = [pc EXCEPT ![c] = "dec_lookup_from"]
                   /\ UNCHANGED <<ret, memo_wif, pubkey>>
              ELSE IF r.out.kind = "raise"
              THEN /\ ret' = [ret EXCEPT ![c] = r.out]
                   /\ pc' = [pc EXCEPT ![c] = "dec_done"]
                   /\ UNCHANGED <<memo_wif, pubkey>>
              ELSE /\ memo_wif' = [memo_wif EXCEPT ![c] = r.out.val]
                   /\ pubkey' = [pubkey EXCEPT ![c] = arg[c].from]
                   /\ pc' = [pc EXCEPT ![c] = "dec_decode"]
                   /\ UNCHANGED ret
    /\ UNCHANGED <<memo, wallet, last, sent, arg, nonce>>

\* decrypt, lines 213-224
DecryptLookupFromStep(c) ==
    /\ pc[c] = "dec_lookup_from"
    /\ LET r == DecryptLookupFrom(wallet, arg[c])
       IN  /\ log' = [log EXCEPT ![c] = log[c] \o r.log]
           /\ IF r.out.kind = "raise"
              THEN /\ ret' = [ret EXCEPT ![c] = r.out]
                   /\ pc' = [pc EXCEPT ![c] = "dec_done"]
                   /\ UNCHANGED <<memo_wif, pubkey>>
              ELSE /\ memo_wif' = [memo_wif EXCEPT ![c] = r.out.val]
                   /\ pubkey' = [pubkey EXCEPT ![c] = arg[c].to]
                   /\ pc' = [pc EXCEPT ![c] = "dec_decode"]
                   /\ UNCHANGED ret
    /\ UNCHANGED <<memo, wallet, last, sent, arg, nonce>>

\* decrypt, lines 226-231
DecryptDecodeStep(c) ==
    /\ pc[c] = "dec_decode"
    /\ LET r == DecryptDecode(memo_wif[c], pubkey[c], arg[c])
       IN  Finish(c, r.out, r.log)
    /\ pc' = [pc EXCEPT ![c] = "dec_done"]
    /\ UNCHANGED <<memo, wallet, last, sent, arg, nonce, memo_wif, pubkey>>

NextConc ==
    \E c \in Calls :
        \/ \E text \in ConcTexts, k \in Draws : EncryptBegin(c, text, k)
        \/ EncryptLookupStep(c)
        \/ EncryptEncodeStep(c)
        \/ \E env \in ConcArgs : DecryptBegin(c, env)
        \/ DecryptLookupToStep(c)
        \/ DecryptLookupFromStep(c)
        \/ DecryptDecodeStep(c)

SpecConc == InitConc /\ [][NextConc]_vars

\* ------------------------------------------------------- claims under Spec
IsLookup(e) == e.ev = "lookup"
IsDecode(e) == e.ev = "decode"
IsEncode(e) == e.ev = "encode"
Lookups(lg) == SelectSeq(lg, IsLookup)
Decodes(lg) == SelectSeq(lg, IsDecode)
Encodes(lg) == SelectSeq(lg, IsEncode)

\* the latest operation is a decrypt of a non-empty envelope / an encrypt of a
\* non-empty text
DecryptCalled == last.op = "decrypt" /\ Truthy(last.arg)
EncryptCalled == last.op = "encrypt" /\ Truthy(last.arg)

GaveKey(lk) == lk.kind = "return" /\ lk.val # None
KeyNotFound(lk) == lk.kind = "raise" /\ lk.exc = "KeyNotFound"
OtherError(lk) == lk.kind = "raise" /\ lk.exc # "KeyNotFound"
\* the store holds the private key of pub and hands it out
Holds(w, pub) == ~w.locked /\ w.keys[pub.id] = "held"

\* C1: decrypt of a non-empty envelope looks up the private key of
\* envelope.to first; if the store gives it, decrypt decodes with it and
\* envelope.from and never looks up envelope.from (also when the store holds
\* both keys); only if the first lookup fails with KeyNotFound does it look up
\* envelope.from, and if the store gives that key it decodes with it and
\* envelope.to.  The codec gets envelope.nonce and envelope.message as they are.
C1_RoleOrder ==
    DecryptCalled =>
        LET e == last.arg
            lk1 == getPrivateKeyForPublicKey(wallet, e.to)
            lk2 == getPrivateKeyForPublicKey(wallet, e.from)
        IN  /\ Head(last.log) = EvLookup(e.to)
            /\ GaveKey(lk1) =>
                 last.log = <<EvLookup(e.to), EvDecode(lk1.val, e.from, e.nonce, e.message)>>
            /\ ~KeyNotFound(lk1) => Len(Lookups(last.log)) = 1
            /\ KeyNotFound(lk1) /\ GaveKey(lk2) =>
                 last.log = <<EvLookup(e.to), EvLookup(e.from),
                              EvDecode(lk2.val, e.to, e.nonce, e.message)>>

\* the store holds both private keys of an envelope between two parties and
\* decrypt returned its text
C1_Witness ==
    /\ DecryptCalled
    /\ last.arg.to # last.arg.from
    /\ Holds(wallet, last.arg.to) /\ Holds(wallet, last.arg.from)
    /\ last.out = Return(Foobar)

\* C2: decrypt of a non-empty envelope fails with MissingKeyError exactly when
\* both lookups, of envelope.to and then of envelope.from, fail with
\* KeyNotFound; the error names envelope.to and envelope.from; KeyNotFound
\* itself never reaches the caller; and with MissingKeyError nothing is decoded.
C2_MissingKey ==
    DecryptCalled =>
        LET e == last.arg
            lk1 == getPrivateKeyForPublicKey(wallet, e.to)
            lk2 == getPrivateKeyForPublicKey(wallet, e.from)
            missing == last.out.kind = "raise" /\ last.out.exc = "MissingKeyError"
        IN  /\ missing <=> (KeyNotFound(lk1) /\ KeyNotFound(lk2))
            /\ missing => /\ last.out.need = <<e.to, e.from>>
                          /\ Decodes(last.log) = <<>>
                          /\ last.log = <<EvLookup(e.to), EvLookup(e.from)>>
            /\ ~KeyNotFound(last.out)

C2_Witness ==
    /\ DecryptCalled
    /\ last.arg.to # last.arg.from
    /\ last.out.kind = "raise" /\ last.out.exc = "MissingKeyError"

\* C3 (as claimed): encrypt of a non-empty text, the sender's private memo key
\* not in the store, fails with MissingKeyError and encodes nothing, however
\* the store reports the missing key.
C3_EncryptMissingKey ==
    (/\ EncryptCalled
     /\ memo.from_account # NoAttr
     /\ wallet.keys[memo.from_account] = "absent")
    => /\ last.out.kind = "raise" /\ last.out.exc = "MissingKeyError"
       /\ Encodes(last.log) = <<>>

\* C4: in decrypt, once a lookup gave a key, what decode_memo does is what the
\* caller gets: a failure of the decode is raised as it is, is followed by no
\* further lookup and no second decode, and is never turned into
\* MissingKeyError or into None.
C4_DecodeFailurePropagates ==
    (DecryptCalled /\ Decodes(last.log) # <<>>) =>
        LET d == Head(Decodes(last.log))
        IN  /\ Len(Decodes(last.log)) = 1
            /\ last.log[Len(last.log)] = d
            /\ last.out = decode_memo(d.priv, d.pub, d.nonce, d.message)
            /\ (Holds(wallet, last.arg.to) /\ Holds(wallet, last.arg.from))
                 => Len(Lookups(last.log)) = 1

\* the store holds both keys, the decode as receiver failed its integrity check
C4_Witness ==
    /\ DecryptCalled
    /\ last.arg.to # last.arg.from
    /\ Holds(wallet, last.arg.to) /\ Holds(wallet, last.arg.from)
    /\ last.out = Raise("IntegrityError")

\* C5: encrypt of None or "" and decrypt of None or {} return None, raise
\* nothing, draw no nonce, look up no key and do not call the codec, whatever
\* the store holds and whether or not it is locked.
C5_AbsentInput ==
    (last.op \in {"encrypt", "decrypt"} /\ ~Truthy(last.arg)) =>
        /\ last.out = Return(None)
        /\ last.log = <<>>

C5_Witness ==
    /\ last.op = "encrypt" /\ last.arg = EmptyStr
    /\ wallet.locked
    /\ memo.from_account = NoAttr
    /\ last.out = Return(None)

\* a key store that gives the receiver's private memo key, or reports it
\* missing with its KeyNotFound condition and gives the sender's
StoreServes(w, e) ==
    \/ Holds(w, e.to)
    \/ Holds(w, e.from) /\ KeyNotFound(getPrivateKeyForPublicKey(w, e.to))

MaxUint64 == <<1, 8, 4, 4, 6, 7, 4, 4, 0, 7, 3, 7, 0, 9, 5, 5, 1, 6, 1, 5>>
RECURSIVE LexLeq(_, _)
LexLeq(a, b) ==
    IF a = <<>> THEN TRUE
    ELSE IF Head(a) # Head(b) THEN Head(a) < Head(b)
    ELSE LexLeq(Tail(a), Tail(b))
IsUint64Decimal(ds) ==
    /\ Len(ds) >= 1
    /\ \A i \in 1 .. Len(ds) : ds[i] \in 0 .. 9
    /\ Len(ds) > 1 => ds[1] # 0
    /\ \/ Len(ds) < Len(MaxUint64)
       \/ Len(ds) = Len(MaxUint64) /\ LexLeq(ds, MaxUint64)

C10_OnlyKeyNotFoundFallsBack ==
    DecryptCalled =>
        LET e == last.arg
            lk1 == getPrivateKeyForPublicKey(wallet, e.to)
            lk2 == getPrivateKeyForPublicKey(wallet, e.from)
        IN  /\ ~KeyNotFound(lk1) => last.log[1] = EvLookup(e.to) /\ Len(Lookups(last.log)) = 1
            /\ OtherError(lk1) => last.out = lk1 /\ last.log = <<EvLookup(e.to)>>
            /\ KeyNotFound(lk1) /\ OtherError(lk2) =>
                 /\ last.out = lk2
                 /\ last.log = <<EvLookup(e.to), EvLookup(e.from)>>

\* the second lookup failed with another error than KeyNotFound
C10_Witness ==
    /\ DecryptCalled
    /\ last.out = Raise("StorageError")
    /\ Len(Lookups(last.log)) = 2

\* --------------------------------------------------- claims under SpecConc
\* a finished call has the outcome and the events of the same call run alone
SameAsAlone(c) ==
    /\ pc[c] = "enc_done" =>
         \E k \in Draws :
            /\ Truthy(arg[c]) => nonce[c] = NonceOf[k]
            /\ Result(ret[c], log[c]) = encrypt(memo, wallet, arg[c], k)
    /\ pc[c] = "dec_done" => Result(ret[c], log[c]) = decrypt(wallet, arg[c])

\* a step leaves the Memo object and the key store as they are, and the
\* variables of every call that did not take it
NoSharedWrite ==
    /\ memo' = memo /\ wallet' = wallet
    /\ \A c \in Calls :
         pc'[c] = pc[c] =>
            /\ arg'[c] = arg[c] /\ nonce'[c] = nonce[c] /\ memo_wif'[c] = memo_wif[c]
            /\ pubkey'[c] = pubkey[c] /\ ret'[c] = ret[c] /\ log'[c] = log[c]

\* C9: concurrent encrypt and decrypt calls on one Memo object need no
\* coordination: however their lookups and codec calls interleave, each call
\* ends with the outcome it has when run alone against the same key store (an
\* envelope up to the call's own nonce), and no call writes what another reads.
C9_Concurrent ==
    /\ [](\A c \in Calls : SameAsAlone(c))
    /\ [][NoSharedWrite]_vars

\* two calls have finished, one decrypted as sender while the other failed
C9_Witness ==
    \E c, d \in Calls :
        /\ pc[c] = "dec_done" /\ ret[c] = Return(Foobar) /\ Len(Lookups(log[c])) = 2
        /\ pc[d] = "dec_done" /\ ret[d] = Raise("IntegrityError")

====
